---- MODULE Spec2Model ----
(***************************************************************************)
(* State-machine model of the AWS MCP server: the dispatcher               *)
(* (AWSMCPServer.handle_call_tool, _get_client, _execute_tool, _audit_log) *)
(* and the per-account client (AWSClient._get_session, get_client,         *)
(* get_async_client, _handle_client_error, create_instance and the         *)
(* operation wrappers).                                                    *)
(*                                                                         *)
(* Every invocation is a task.  A task of kind "tool" enters at            *)
(* handle_call_tool; a task of kind "direct" is a library caller that      *)
(* calls one method of a directly constructed AWSClient (the object        *)
(* "lib").  The server runs its handlers on one cooperative event loop:    *)
(* `running` is the task that holds the loop, and a task gives it up only  *)
(* where the code suspends (SuspendsAt) or when it ends.                   *)
(*                                                                         *)
(* Money is counted in 1/10000 dollar so that the rate table is integral. *)
(***************************************************************************)
EXTENDS Integers, Sequences, FiniteSets, TLC

\* ------------------------------------------------------------------ bounds
\* Number of invocations (tasks) of one behaviour.
MaxTasks == 2

Tasks == 1..MaxTasks

\* ------------------------------------------------------- program constants
None == "None"

\* CostConfig.cost_alert_threshold default, 100.0 dollars.
DefaultThreshold == 1000000

\* A threshold equal to the estimate of "c5.xlarge", 122.4 dollars.
EqualThreshold == 1700 * 24 * 30

\* Region arguments a caller may pass (None = omitted).
RegionArgs == {None, "us-east-1", "eu-west-1"}

\* Account selectors a caller may pass; "ghost" is not configured.
AccountNames == {"default", "prod", "ghost"}

\* AWSMCPServer.default_account
default_account == "default"

\* AWSClient objects: one per account name inside the server, plus "lib",
\* an AWSClient that a library caller constructed itself.
Objs == AccountNames \cup {"lib"}

\* The accounts map handed to the AWSMCPServer constructor.  Both accounts
\* hold the same long-lived static keys; "prod" also names a role and has a
\* home region outside the enabled set.
ConstructorAccounts ==
    [ default |-> [access_key_id |-> "AKIA1", secret_access_key |-> "s3cr3t",
                   role_arn |-> None, profile |-> None, region |-> "us-east-1"],
      prod    |-> [access_key_id |-> "AKIA1", secret_access_key |-> "s3cr3t",
                   role_arn |-> "arn:role/ops", profile |-> None,
                   region |-> "eu-west-1"] ]

\* AccountConfig of the directly constructed AWSClient "lib".
LibAccount ==
    [access_key_id |-> "AKIA1", secret_access_key |-> "s3cr3t",
     role_arn |-> "arn:role/ops", profile |-> None, region |-> "us-east-1"]

\* An AccountConfig slot that holds no account.
NoAccount ==
    [access_key_id |-> None, secret_access_key |-> None,
     role_arn |-> None, profile |-> None, region |-> None]

\* Raw provider error codes: the four families of _handle_client_error and
\* one code outside them.
RawCodes ==
    {"UnauthorizedOperation", "AccessDenied", "AccessDeniedException",
     "InvalidUserID.NotFound", "NoSuchEntity", "ResourceNotFoundException",
     "ValidationException", "InvalidParameterValue",
     "InvalidParameterCombination",
     "Throttling", "ThrottlingException", "RequestLimitExceeded",
     "ThisCodeDoesNotExist"}

\* The raw codes the provider fails with during a whole invocation; the
\* translation of every raw code is exercised by SpecTranslate.
ProviderCodes == {"AccessDenied", "ThisCodeDoesNotExist"}

\* Message the provider attaches to a failure.
ProviderMessages == {"Access Denied"}

\* Instance types a caller may ask for; "x9.huge" is not in the rate table.
InstanceTypes == {"t3.micro", "c5.xlarge", "x9.huge"}

\* AWSConfig values of the modelled server deployments: the AWSConfig's own
\* (default) identity holds static keys or nothing; the audit log is off,
\* goes to the diagnostic stream, or goes to a file.
ServerConfigs ==
    { [ deployment |-> "server",
        access_key_id |-> k,
        secret_access_key |-> IF k = None THEN None ELSE "s3cr3t",
        role_arn |-> None, profile |-> None,
        default_region |-> "us-east-1",
        enabled_regions |-> {"us-east-1"},
        enable_audit_log |-> a[1], audit_log_file |-> a[2],
        track_costs |-> TRUE,
        cost_alert_threshold |-> DefaultThreshold,
        require_cost_approval |-> FALSE ]
      : k \in {None, "AKIA1"},
        a \in { <<FALSE, None>>, <<TRUE, None>>, <<TRUE, "audit.log">> } }

\* Library deployments: the caller builds AWSClient(LibAccount,
\* RegionConfig(enabled_regions), CostConfig(...)) itself.  The threshold is
\* varied only where the guard reads it (tracking on, approval required).
LibraryConfigs ==
    { [ deployment |-> "library",
        access_key_id |-> None, secret_access_key |-> None,
        role_arn |-> None, profile |-> None,
        default_region |-> "us-east-1",
        enabled_regions |-> {"us-east-1"},
        enable_audit_log |-> FALSE, audit_log_file |-> None,
        track_costs |-> tr,
        cost_alert_threshold |-> th,
        require_cost_approval |-> rq ]
      : tr \in BOOLEAN, rq \in BOOLEAN,
        th \in {DefaultThreshold, EqualThreshold} }
    \ { c \in [ deployment : {"library"},
                 access_key_id : {None}, secret_access_key : {None},
                 role_arn : {None}, profile : {None},
                 default_region : {"us-east-1"},
                 enabled_regions : {{"us-east-1"}},
                 enable_audit_log : {FALSE}, audit_log_file : {None},
                 track_costs : BOOLEAN,
                 cost_alert_threshold : {EqualThreshold},
                 require_cost_approval : BOOLEAN ]
           : ~(c.track_costs /\ c.require_cost_approval) }

\* A server built as AWSMCPServer(config) with no accounts map: its accounts
\* are {"default": config.get_account_config()}.  The AWSConfig's own identity
\* holds a key with or without its secret, a profile, or nothing.
IdentityConfigs ==
    { [ deployment |-> "identity",
        access_key_id |-> k, secret_access_key |-> s,
        role_arn |-> None, profile |-> p,
        default_region |-> "us-east-1",
        enabled_regions |-> {"us-east-1"},
        enable_audit_log |-> FALSE, audit_log_file |-> None,
        track_costs |-> TRUE,
        cost_alert_threshold |-> DefaultThreshold,
        require_cost_approval |-> FALSE ]
      : k \in {None, "AKIA1"}, s \in {None, "s3cr3t"}, p \in {None, "dev"} }

\* valid_regions of AWSConfig.validate_config
valid_regions ==
    {"us-east-1", "us-east-2", "us-west-1", "us-west-2",
     "eu-west-1", "eu-west-2", "eu-west-3", "eu-central-1",
     "ap-southeast-1", "ap-southeast-2", "ap-northeast-1", "ap-northeast-2",
     "sa-east-1", "ca-central-1", "ap-south-1", "eu-north-1"}

\* The AWSConfig values main() may load from the environment: every field
\* of the identity is unset, set to the empty string or set to a value, and
\* the enabled regions are valid, hold an unknown region, or are empty.
StartupConfigs ==
    { [ deployment |-> "startup",
        access_key_id |-> k, secret_access_key |-> s,
        role_arn |-> ra, profile |-> p,
        default_region |-> "us-east-1",
        enabled_regions |-> er,
        enable_audit_log |-> FALSE, audit_log_file |-> None,
        track_costs |-> TRUE,
        cost_alert_threshold |-> DefaultThreshold,
        require_cost_approval |-> FALSE ]
      : k \in {None, "AKIA1"}, s \in {None, "", "s3cr3t"},
        ra \in {None, "", "arn:role/ops"}, p \in {None, "", "dev"},
        er \in { {"us-east-1"}, {"us-east-1", "mars-1"}, {} } }

\* ---------------------------------------------------------- exceptions.py
\* An exception value.  kind "AWSError" is the taxonomy (AWSError and its
\* subclasses); kind "Other" is any other Python exception.  message is the
\* sequence of the fragments the f-string joins.
NoExc ==
    [kind |-> "none", cls |-> None, error_code |-> None, message |-> <<>>,
     attrs |-> [x |-> None]]

AWSErrorOf(cls, error_code, message, attrs) ==
    [kind |-> "AWSError", cls |-> cls, error_code |-> error_code,
     message |-> message, attrs |-> attrs]

\* Mutant of AuthenticationError: the subtype is dropped and the error code
\* is the class name.
AuthenticationError_Untyped(message, auth_type) ==
    AWSErrorOf("AuthenticationError", "AuthenticationError", message,
               [auth_type |-> None])

AuthenticationError(message, auth_type) ==
    AWSErrorOf("AuthenticationError", "AuthenticationFailed", message,
               [auth_type |-> auth_type])

AuthorizationError(message, action, resource) ==
    AWSErrorOf("AuthorizationError", "AccessDenied", message,
               [action |-> action, resource |-> resource])

ResourceNotFoundError(message, resource_type) ==
    AWSErrorOf("ResourceNotFoundError", "ResourceNotFound", message,
               [resource_type |-> resource_type])

ValidationError(message, parameter, value) ==
    AWSErrorOf("ValidationError", "ValidationError", message,
               [parameter |-> parameter, value |-> value])

ThrottlingError(message) ==
    AWSErrorOf("ThrottlingError", "Throttling", message,
               [retry_after |-> None])

ServiceError(message, service, operation) ==
    AWSErrorOf("ServiceError", "ServiceError", message,
               [service |-> service, operation |-> operation])

\* Any exception that is not an AWSError: ValueError, KeyError, TypeError,
\* NameError, botocore's ClientError.
OtherError(cls, message) ==
    [kind |-> "Other", cls |-> cls, error_code |-> None, message |-> message,
     attrs |-> [x |-> None]]

\* ------------------------------------------------------- client.py, pure
\* Mutant of _handle_client_error: "RequestLimitExceeded" is missing from
\* the throttling family.
_handle_client_error_ShortFamily(error_code, error_message, service, operation) ==
    IF error_code \in {"UnauthorizedOperation", "AccessDenied",
                       "AccessDeniedException"}
    THEN AuthorizationError(<<error_message>>, operation, service)
    ELSE IF error_code \in {"InvalidUserID.NotFound", "NoSuchEntity",
                            "ResourceNotFoundException"}
    THEN ResourceNotFoundError(<<error_message>>, service)
    ELSE IF error_code \in {"ValidationException", "InvalidParameterValue",
                            "InvalidParameterCombination"}
    THEN ValidationError(<<error_message>>, None, None)
    ELSE IF error_code \in {"Throttling", "ThrottlingException"}
    THEN ThrottlingError(<<error_message>>)
    ELSE ServiceError(<<error_message>>, service, operation)

\* AWSClient._handle_client_error: the exception raised for a ClientError
\* with this code and message, caught around `operation` of `service`.
_handle_client_error(error_code, error_message, service, operation) ==
    IF error_code \in {"UnauthorizedOperation", "AccessDenied",
                       "AccessDeniedException"}
    THEN AuthorizationError(<<error_message>>, operation, service)
    ELSE IF error_code \in {"InvalidUserID.NotFound", "NoSuchEntity",
                            "ResourceNotFoundException"}
    THEN ResourceNotFoundError(<<error_message>>, service)
    ELSE IF error_code \in {"ValidationException", "InvalidParameterValue",
                            "InvalidParameterCombination"}
    THEN ValidationError(<<error_message>>, None, None)
    ELSE IF error_code \in {"Throttling", "ThrottlingException",
                            "RequestLimitExceeded"}
    THEN ThrottlingError(<<error_message>>)
    ELSE ServiceError(<<error_message>>, service, operation)

\* The rate table of _estimate_ec2_cost, in 1/10000 dollar per hour.
hourly_costs ==
    [ i \in {"t3.micro", "t3.small", "t3.medium", "t3.large",
             "m5.large", "m5.xlarge", "c5.large", "c5.xlarge"} |->
        CASE i = "t3.micro"  -> 104
          [] i = "t3.small"  -> 208
          [] i = "t3.medium" -> 416
          [] i = "t3.large"  -> 832
          [] i = "m5.large"  -> 960
          [] i = "m5.xlarge" -> 1920
          [] i = "c5.large"  -> 850
          [] i = "c5.xlarge" -> 1700 ]

\* Mutant of _estimate_ec2_cost: a type outside the rate table has no rate.
_estimate_ec2_cost_NoDefault(instance_type) ==
    (IF instance_type \in DOMAIN hourly_costs
     THEN hourly_costs[instance_type] ELSE 0) * 24 * 30

\* AWSClient._estimate_ec2_cost: hourly_costs.get(instance_type, 0.1) * 24 * 30
_estimate_ec2_cost(instance_type) ==
    (IF instance_type \in DOMAIN hourly_costs
     THEN hourly_costs[instance_type] ELSE 1000) * 24 * 30

\* key = f"{service}:{region}" of get_client
ClientKey(service, region) == service \o ":" \o region

\* ------------------------------------------------- client.py, CostTracker
\* self._cost_tracker is None (tracking off, or no AWSClient yet).
NoCostTracker == [exists |-> FALSE, operations |-> <<>>, total_cost |-> 0]

\* CostTracker.__init__
CostTracker == [exists |-> TRUE, operations |-> <<>>, total_cost |-> 0]

\* CostTracker.track_operation: the tracker after the call.  The operations
\* hold their cost; every one is of the current day.
track_operation(tracker, estimated_cost) ==
    [tracker EXCEPT !.operations = Append(@, estimated_cost),
                    !.total_cost = @ + estimated_cost]

\* sum(op['cost'] for op in operations if op['timestamp'].date() == today)
RECURSIVE SumCosts(_)
SumCosts(operations) ==
    IF operations = <<>> THEN 0
    ELSE Head(operations) + SumCosts(Tail(operations))

\* CostTracker.get_daily_cost
get_daily_cost(tracker) == SumCosts(tracker.operations)

\* ------------------------------------------------------------------ state
VARIABLES
    cfg,        \* the AWSConfig / the library caller's configuration
    accounts,   \* AWSMCPServer.accounts: account name -> AccountConfig
    clients,    \* the AWSClient objects that exist (keys of server.clients)
    session,    \* AWSClient._session of each object
    cache,      \* AWSClient._clients of each object: key -> handle
    created,    \* every client handle ever constructed (history)
    counts,     \* per object: AWSClient constructions, session
                \* resolutions, token exchanges (history)
    task,       \* the invocations: position, request, locals, outcome
    audit,      \* the audit log: the entries written to the sink, in order
    disk_ok,    \* whether the audit file can (still) be written
    cost_tracker, \* AWSClient._cost_tracker of each object
    running     \* the task that holds the event loop, 0 if none

vars == <<cfg, accounts, clients, session, cache, created, counts, task,
          audit, disk_ok, cost_tracker, running>>

\* A request.  kind "tool": name, arguments and account selector delivered to
\* handle_call_tool.  kind "direct": a method of the AWSClient "lib" called
\* by a library caller.
Req(kind, name, account, service, region, instance_type, has_id) ==
    [kind |-> kind, name |-> name, account |-> account, service |-> service,
     region |-> region, instance_type |-> instance_type, has_id |-> has_id]

NoReq == Req("none", None, None, None, None, None, FALSE)

ToolRequests ==
    { Req("tool", "aws_ec2_list_instances", a[1], None, a[2], None, FALSE)
        : a \in { <<None, "us-east-1">>, <<None, "eu-west-1">>,
                  <<"prod", None>>, <<"prod", "us-east-1">>,
                  <<"ghost", "us-east-1">> } }
    \cup { Req("tool", "aws_ec2_create_instance", None, None, None, i, FALSE)
        : i \in {"c5.xlarge"} }
    \cup { Req("tool", "aws_ec2_stop_instance", None, None, "us-east-1",
               None, b) : b \in BOOLEAN }
    \cup { Req("tool", "aws_lambda_invoke", None, None, "eu-west-1", None,
               FALSE),
           Req("tool", "aws_unknown_tool", None, None, None, None, FALSE) }

DirectRequests ==
    { Req("direct", "get_client", None, s, r, None, FALSE)
        : s \in {"ec2", "s3"}, r \in RegionArgs }
    \cup { Req("direct", "create_instance", None, "ec2", None, i, FALSE)
        : i \in InstanceTypes }
    \cup { Req("direct", "get_async_client", None, "lambda", r, None, FALSE)
        : r \in {"us-east-1", "eu-west-1"} }
    \cup { Req("direct", "json", None, None, None, None, FALSE) }

\* The invocations delivered to a server built without an accounts map: the
\* default account and a name that is configured nowhere.
IdentityRequests ==
    { Req("tool", "aws_ec2_list_instances", a, None, "us-east-1", None, FALSE)
        : a \in {None, "ghost"} }

\* The run of main().
MainRequest == Req("main", "main", None, None, None, None, FALSE)

\* The requests the host of a deployment delivers.
RequestsOf(deployment) ==
    IF deployment = "server" THEN ToolRequests
    ELSE IF deployment = "identity" THEN IdentityRequests
    ELSE DirectRequests

\* boto3.Session / aioboto3.Session: which credentials it signs with.
NoSession == [creds |-> "none", key_id |-> None]

\* boto3.Session(**session_kwargs): signed with the static key, else with
\* the named profile, else with whatever the provider SDK finds in its
\* ambient credential chain.
BaseSession(account) ==
    [creds |-> IF account.access_key_id # None /\ account.access_key_id # ""
               THEN "long_lived"
               ELSE IF account.profile # None /\ account.profile # ""
               THEN "profile" ELSE "ambient",
     key_id |-> account.access_key_id]

AssumedSession == [creds |-> "temporary", key_id |-> "ASIA-temp"]

\* A client handle.  Two handles are the same object iff they are equal: n
\* numbers the handles constructed for one (object, service, region, via).
NoHandle ==
    [obj |-> None, service |-> None, region |-> None, n |-> 0,
     creds |-> "none", via |-> None]

NewHandle(obj, service, region, creds, via) ==
    [obj |-> obj, service |-> service, region |-> region,
     n |-> 1 + Cardinality({h \in created :
                              /\ h.obj = obj /\ h.service = service
                              /\ h.region = region /\ h.via = via}),
     creds |-> creds, via |-> via]

\* The response handle_call_tool returns.  keys are the keys of the error
\* object (empty for no response and for a success payload, whose keys are
\* the operation's own).
NoResp ==
    [shape |-> "none", error |-> <<>>, error_code |-> None,
     error_type |-> None, keys |-> {}]

SuccessResp ==
    [shape |-> "success", error |-> <<>>, error_code |-> None,
     error_type |-> None, keys |-> {}]

\* {"error": e.message, "error_code": e.error_code, "request_id", "details"}
TaxonomyResp(e) ==
    [shape |-> "taxonomy", error |-> e.message, error_code |-> e.error_code,
     error_type |-> None,
     keys |-> {"error", "error_code", "request_id", "details"}]

\* Mutant of GenericResp: the generic object also carries an error_code, the
\* name of the exception class.
GenericResp_WithErrorCode(e) ==
    [shape |-> "generic", error |-> e.message, error_code |-> e.cls,
     error_type |-> e.cls, keys |-> {"error", "error_code", "error_type"}]

\* {"error": str(e), "error_type": type(e).__name__}
GenericResp(e) ==
    [shape |-> "generic", error |-> e.message, error_code |-> None,
     error_type |-> e.cls, keys |-> {"error", "error_type"}]

\* A serialized secret field: the clear value, the mask of SecretStr, or
\* null.
SecretField(form, value) == [form |-> form, value |-> value]

\* json_encoders = {SecretStr: lambda v: v.get_secret_value() if v else None}
json_encoders_SecretStr(v) ==
    IF v # None /\ v # "" THEN SecretField("clear", v)
    ELSE SecretField("null", None)

\* AccountConfig serialized to JSON: every SecretStr field goes through
\* json_encoders.
AccountConfig_json(account) ==
    [access_key_id |-> account.access_key_id,
     secret_access_key |-> json_encoders_SecretStr(account.secret_access_key),
     role_arn |-> account.role_arn, profile |-> account.profile,
     region |-> account.region]

\* Nothing serialized.
NoOutput ==
    [access_key_id |-> None, secret_access_key |-> SecretField("none", None),
     role_arn |-> None, profile |-> None, region |-> None]

IdleTask ==
    [pc |-> "idle", req |-> NoReq, obj |-> None, op |-> None,
     service |-> None, operation |-> None, region |-> None,
     handle |-> NoHandle, exc |-> NoExc, raw |-> None, est |-> 0,
     sts_error |-> None, called |-> FALSE, overlap |-> FALSE,
     resp |-> NoResp, escaped |-> FALSE, out |-> NoOutput,
     exit_code |-> -1, cost_checked |-> FALSE]

Init ==
    /\ cfg \in ServerConfigs \cup LibraryConfigs
    /\ accounts = [a \in AccountNames |->
                     IF cfg.deployment = "server"
                        /\ a \in DOMAIN ConstructorAccounts
                     THEN ConstructorAccounts[a] ELSE NoAccount]
    /\ clients = IF cfg.deployment = "library" THEN {"lib"} ELSE {}
    /\ session = [o \in Objs |-> NoSession]
    /\ cache = [o \in Objs |-> <<>>]
    /\ created = {}
    /\ counts = [o \in Objs |->
                   [clients |-> IF o \in clients THEN 1 ELSE 0,
                    sessions |-> 0, sts |-> 0]]
    /\ task = [t \in Tasks |-> IdleTask]
    /\ audit = <<>>
    /\ disk_ok = TRUE
    /\ cost_tracker = [o \in Objs |->
                         IF o \in clients /\ cfg.track_costs
                         THEN CostTracker ELSE NoCostTracker]
    /\ running = 0

\* ------------------------------------------------------------- scheduling
\* Mutant of SuspendsAt: get_client gives the loop up between its cache
\* lookup and the construction of the client (as an awaited or offloaded
\* session build would).
SuspendsAt_BetweenLookupAndCreate(p) == p = "session"

\* Whether a task that reaches position p gives the event loop up there.
\* handle_call_tool awaits only _audit_log, _get_client and _execute_tool,
\* coroutines that never suspend (the provider calls are synchronous boto3
\* calls made on the loop's thread): no position suspends.
SuspendsAt(p) == FALSE

\* Task t may take its next step: it holds the loop, or it is suspended and
\* the loop is free.
Holds(t) ==
    \/ running = t
    \/ running = 0 /\ SuspendsAt(task[t].pc)

\* Task t moves to the record r.
Step(t, r) ==
    /\ task' = [task EXCEPT ![t] = r]
    /\ running' = IF r.pc = "done" \/ SuspendsAt(r.pc) THEN 0 ELSE t

\* The task after exception e is raised in its body: a tool task lands in
\* the matching except clause of handle_call_tool, a direct caller gets e.
Throw(r, e) ==
    [r EXCEPT !.exc = e,
              !.pc = IF r.req.kind = "tool"
                     THEN (IF e.kind = "AWSError" THEN "except_aws"
                           ELSE "except_other")
                     ELSE "done"]

\* ---------------------------------------------------------------- config
\* os.getenv(f"AWS_{NAME}_{FIELD}", default): the modelled environment sets
\* no account-scoped variable.
getenv(account_name, field, default) == default

\* AWSConfig.get_account_config
get_account_config(account_name) ==
    IF account_name # None /\ account_name # "default"
    THEN [access_key_id |->
              getenv(account_name, "ACCESS_KEY_ID", cfg.access_key_id),
          secret_access_key |->
              getenv(account_name, "SECRET_ACCESS_KEY",
                     IF cfg.secret_access_key # None
                     THEN cfg.secret_access_key ELSE ""),
          role_arn |-> getenv(account_name, "ROLE_ARN", cfg.role_arn),
          profile |-> getenv(account_name, "PROFILE", cfg.profile),
          region |-> getenv(account_name, "REGION", cfg.default_region)]
    ELSE [access_key_id |-> cfg.access_key_id,
          secret_access_key |-> cfg.secret_access_key,
          role_arn |-> cfg.role_arn,
          profile |-> cfg.profile,
          region |-> cfg.default_region]

\* Python truthiness of an optional string.
Truthy(x) == x # None /\ x # ""

\* AWSClient.account_config of object o.
AccountOf(o) == IF o = "lib" THEN LibAccount ELSE accounts[o]

\* AWSClient.region_config.enabled_regions of object o: the server passes
\* AWSConfig.get_region_config(), the library caller its own RegionConfig.
EnabledRegionsOf(o) == cfg.enabled_regions

\* AWSClient.cost_config of object o: the server passes
\* AWSConfig.get_cost_config(), which fixes require_cost_approval=False.
CostConfigOf(o) ==
    [track_costs |-> cfg.track_costs,
     cost_alert_threshold |-> cfg.cost_alert_threshold,
     require_cost_approval |->
         IF o = "lib" THEN cfg.require_cost_approval ELSE FALSE]

\* AWSClient.__init__, line 40
NewCostTracker(o) ==
    IF CostConfigOf(o).track_costs THEN CostTracker ELSE NoCostTracker

\* -------------------------------------------------------------- audit log
AuditEntry(event_type, t, tool, error_code) ==
    [event_type |-> event_type, task |-> t, tool |-> tool,
     error_code |-> error_code]

\* Mutant of _audit_log: the write to the file is not guarded by try/except.
_audit_log_Unguarded(log, entry) ==
    IF ~cfg.enable_audit_log
    THEN [log |-> log, raised |-> FALSE]
    ELSE IF cfg.audit_log_file # None
    THEN (IF disk_ok
          THEN [log |-> Append(log, entry), raised |-> FALSE]
          ELSE [log |-> log, raised |-> TRUE])
    ELSE [log |-> Append(log, entry), raised |-> FALSE]

\* AWSMCPServer._audit_log: the log after the call and whether the call
\* raised.  A failed write to the file is caught and logged.
_audit_log(log, entry) ==
    IF ~cfg.enable_audit_log
    THEN [log |-> log, raised |-> FALSE]
    ELSE IF cfg.audit_log_file # None
    THEN (IF disk_ok
          THEN [log |-> Append(log, entry), raised |-> FALSE]
          ELSE [log |-> log, raised |-> FALSE])
    ELSE [log |-> Append(log, entry), raised |-> FALSE]

\* ---------------------------------------------------------------- actions
Shared == <<cfg, accounts, clients, session, cache, created, counts,
            cost_tracker>>

\* The audit file becomes unwritable (disk full, permissions): from then on
\* every write to it fails.  Only the three _audit_log calls of an
\* invocation touch the file, so a failure at any other moment is the failure
\* just before the next of these calls.
DiskFails ==
    /\ cfg.audit_log_file # None
    /\ disk_ok
    /\ running # 0
    /\ task[running].pc \in {"audit_call", "audit_success", "except_aws"}
    /\ disk_ok' = FALSE
    /\ UNCHANGED <<Shared, task, audit, running>>

\* The host delivers an invocation (tasks are numbered in delivery order).
Deliver(t) ==
    /\ task[t].pc = "idle"
    /\ \A u \in Tasks : u < t => task[u].pc # "idle"
    /\ \E q \in RequestsOf(cfg.deployment) :
          task' = [task EXCEPT ![t] = [IdleTask EXCEPT !.pc = "received",
                                                       !.req = q]]
    /\ UNCHANGED <<Shared, audit, disk_ok, running>>

\* Mutant of Start: handle_call_tool resolves the account first and does
\* not write its tool_call entry.
Start_ResolvesFirst(t) ==
    /\ running = 0
    /\ task[t].pc = "received"
    /\ \A u \in Tasks : u < t => task[u].pc # "received"
    /\ task[t].req.kind = "tool"
    /\ Step(t, [task[t] EXCEPT !.pc = "resolve"])
    /\ UNCHANGED <<Shared, audit, disk_ok>>

\* The loop starts the oldest delivered task.  A tool task enters
\* handle_call_tool; a direct task enters the AWSClient method it calls.
Start(t) ==
    /\ running = 0
    /\ task[t].pc = "received"
    /\ \A u \in Tasks : u < t => task[u].pc # "received"
    /\ LET r == task[t]
           q == r.req
       IN  Step(t,
             IF q.kind = "tool" THEN [r EXCEPT !.pc = "audit_call"]
             ELSE IF q.name = "get_async_client"
             THEN [r EXCEPT !.pc = "async_client", !.obj = "lib",
                            !.op = q.name, !.service = q.service]
             ELSE IF q.name = "json"
             THEN [r EXCEPT !.pc = "serialize", !.obj = "lib",
                            !.op = q.name]
             ELSE [r EXCEPT !.pc = "region", !.obj = "lib", !.op = q.name,
                            !.service = q.service,
                            !.operation = IF q.name = "create_instance"
                                          THEN "run_instances" ELSE None])
    /\ UNCHANGED <<Shared, audit, disk_ok>>

\* handle_call_tool: await self._audit_log("tool_call", ...)
AuditCall(t) ==
    /\ Holds(t)
    /\ task[t].pc = "audit_call"
    /\ LET r == task[t]
           w == _audit_log(audit,
                           AuditEntry("tool_call", t, r.req.name, None))
       IN  /\ audit' = w.log
           /\ Step(t, IF w.raised
                      THEN Throw(r, OtherError("OSError", <<"audit">>))
                      ELSE [r EXCEPT !.pc = "resolve"])
    /\ UNCHANGED <<Shared, disk_ok>>

\* handle_call_tool picks the account name; AWSMCPServer._get_client
GetClientForAccount(t) ==
    /\ Holds(t)
    /\ task[t].pc = "resolve"
    /\ LET r == task[t]
           account_name == IF r.req.account = None THEN default_account
                           ELSE r.req.account
           account_config == get_account_config(account_name)
       IN  IF account_name \in clients
           THEN /\ Step(t, [r EXCEPT !.pc = "execute", !.obj = account_name])
                /\ UNCHANGED <<accounts, clients, counts, cost_tracker>>
           ELSE IF /\ accounts[account_name] = NoAccount
                   /\ ~Truthy(account_config.access_key_id)
                   /\ ~Truthy(account_config.role_arn)
                   /\ ~Truthy(account_config.profile)
           THEN /\ Step(t, Throw(r, OtherError("ValueError",
                                    <<"Unknown account: ", account_name>>)))
                /\ UNCHANGED <<accounts, clients, counts, cost_tracker>>
           ELSE /\ accounts' = IF accounts[account_name] = NoAccount
                               THEN [accounts EXCEPT
                                       ![account_name] = account_config]
                               ELSE accounts
                /\ clients' = clients \cup {account_name}
                /\ counts' = [counts EXCEPT ![account_name].clients = @ + 1]
                /\ cost_tracker' = [cost_tracker EXCEPT ![account_name] =
                                       NewCostTracker(account_name)]
                /\ Step(t, [r EXCEPT !.pc = "execute", !.obj = account_name])
    /\ UNCHANGED <<cfg, session, cache, created, audit, disk_ok>>

\* AWSMCPServer._execute_tool: the dispatch on the tool name.
ExecuteTool(t) ==
    /\ Holds(t)
    /\ task[t].pc = "execute"
    /\ LET r == task[t]
           name == r.req.name
       IN  Step(t,
             IF name = "aws_ec2_list_instances"
             THEN [r EXCEPT !.pc = "region", !.op = "list_instances",
                            !.service = "ec2",
                            !.operation = "describe_instances"]
             ELSE IF name = "aws_ec2_create_instance"
             THEN [r EXCEPT !.pc = "region", !.op = "create_instance",
                            !.service = "ec2",
                            !.operation = "run_instances"]
             ELSE IF name = "aws_ec2_stop_instance"
             THEN [r EXCEPT !.pc = "region", !.op = "stop_instance",
                            !.service = "ec2",
                            !.operation = "stop_instances"]
             ELSE IF name = "aws_lambda_invoke"
             \* invoke_lambda: `async with` on the async generator that
             \* get_async_client returns fails before its body runs.
             THEN Throw(r, OtherError("TypeError",
                        <<"async_generator is no async context manager">>))
             ELSE Throw(r, OtherError("ValueError",
                                      <<"Unknown tool: ", name>>)))
    /\ UNCHANGED <<Shared, audit, disk_ok>>

\* Mutant of RegionCheck: get_client resolves the session first and
\* validates the region afterwards.
RegionCheck_AfterSession(t) ==
    /\ Holds(t)
    /\ task[t].pc = "region"
    /\ LET r == task[t]
           o == r.obj
           region == IF Truthy(r.req.region) THEN r.req.region
                     ELSE AccountOf(o).region
       IN  /\ session' = IF session[o] = NoSession
                         THEN [session EXCEPT ![o] = BaseSession(AccountOf(o))]
                         ELSE session
           /\ counts' = IF session[o] = NoSession
                        THEN [counts EXCEPT ![o].sessions = @ + 1]
                        ELSE counts
           /\ Step(t,
                IF region \notin EnabledRegionsOf(o)
                THEN Throw([r EXCEPT !.region = region],
                           ValidationError(<<"Region ", region,
                                             " is not enabled">>,
                                           "region", region))
                ELSE [r EXCEPT !.pc = "lookup", !.region = region])
    /\ UNCHANGED <<cfg, accounts, clients, cache, created, audit, disk_ok,
                   cost_tracker>>

\* AWSClient.get_client, lines 91-99: the region defaults to the account's
\* region and is validated against the enabled regions.
RegionCheck(t) ==
    /\ Holds(t)
    /\ task[t].pc = "region"
    /\ LET r == task[t]
           region == IF Truthy(r.req.region) THEN r.req.region
                     ELSE AccountOf(r.obj).region
       IN  Step(t,
             IF region \notin EnabledRegionsOf(r.obj)
             THEN Throw([r EXCEPT !.region = region],
                        ValidationError(<<"Region ", region,
                                          " is not enabled">>,
                                        "region", region))
             ELSE [r EXCEPT !.pc = "lookup", !.region = region])
    /\ UNCHANGED <<Shared, audit, disk_ok>>

\* Where the caller of get_client goes on once it holds the handle.
AfterGetClient(op) ==
    IF op = "get_client" THEN "done"
    ELSE IF op = "create_instance" THEN "cost"
    ELSE "provider"

\* Mutant of CacheLookup: the lookup never finds the key, so every call
\* builds a client and overwrites the cached one.
CacheLookup_AlwaysMiss(t) ==
    /\ Holds(t)
    /\ task[t].pc = "lookup"
    /\ Step(t, [task[t] EXCEPT !.pc = "session"])
    /\ UNCHANGED <<cfg, accounts, clients, session, cache, created, counts,
                   audit, disk_ok, cost_tracker>>

\* AWSClient.get_client, lines 101-102 and 114: the cache lookup.
CacheLookup(t) ==
    /\ Holds(t)
    /\ task[t].pc = "lookup"
    /\ LET r == task[t]
           key == ClientKey(r.service, r.region)
       IN  Step(t,
             IF key \in DOMAIN cache[r.obj]
             THEN [r EXCEPT !.pc = AfterGetClient(r.op),
                            !.handle = cache[r.obj][key]]
             ELSE [r EXCEPT !.pc = "session"])
    /\ UNCHANGED <<Shared, audit, disk_ok>>

\* Mutant of GetSession: the session is not memoized; every call builds the
\* base session again.
GetSession_NoMemo(t) ==
    /\ Holds(t)
    /\ task[t].pc = "session"
    /\ LET r == task[t]
           o == r.obj
       IN  /\ session' = [session EXCEPT ![o] = BaseSession(AccountOf(o))]
           /\ counts' = [counts EXCEPT ![o].sessions = @ + 1]
           /\ Step(t, [r EXCEPT !.pc = IF Truthy(AccountOf(o).role_arn)
                                       THEN "assume" ELSE "construct"])
    /\ UNCHANGED <<cfg, accounts, clients, cache, created, audit, disk_ok,
                   cost_tracker>>

\* AWSClient._get_session, lines 44-60: return the memoized session, or
\* build the base session and store it in self._session.
GetSession(t) ==
    /\ Holds(t)
    /\ task[t].pc = "session"
    /\ LET r == task[t]
           o == r.obj
       IN  IF session[o] # NoSession
           THEN /\ Step(t, [r EXCEPT !.pc = "construct"])
                /\ UNCHANGED <<session, counts>>
           \* line 53: secret_access_key.get_secret_value() on a key that
           \* came without a secret (the field is None)
           ELSE IF /\ Truthy(AccountOf(o).access_key_id)
                   /\ AccountOf(o).secret_access_key = None
           THEN /\ Step(t, Throw(r, OtherError("AttributeError",
                                   <<"'NoneType' has no get_secret_value">>)))
                /\ UNCHANGED <<session, counts>>
           ELSE /\ session' = [session EXCEPT ![o] = BaseSession(AccountOf(o))]
                /\ counts' = [counts EXCEPT ![o].sessions = @ + 1]
                /\ Step(t, [r EXCEPT !.pc = IF Truthy(AccountOf(o).role_arn)
                                            THEN "assume" ELSE "construct"])
    /\ UNCHANGED <<cfg, accounts, clients, cache, created, audit, disk_ok,
                   cost_tracker>>

\* AWSClient._get_session, lines 61-85: sts.assume_role on the base session.
\* It returns temporary credentials, fails with a ClientError carrying the
\* provider's message, or fails below the service (BotoCoreError).
AssumeRole(t) ==
    /\ Holds(t)
    /\ task[t].pc = "assume"
    /\ LET r == task[t]
           o == r.obj
       IN  /\ counts' = [counts EXCEPT ![o].sts = @ + 1]
           /\ \/ /\ session' = [session EXCEPT ![o] = AssumedSession]
                 /\ Step(t, [r EXCEPT !.pc = "construct"])
              \/ /\ \E m \in ProviderMessages :
                      Step(t, Throw([r EXCEPT !.sts_error = m],
                                    AuthenticationError(
                                        <<"Failed to assume role: ", m>>,
                                        "role_assumption")))
                 /\ UNCHANGED session
              \/ /\ Step(t, Throw(r, OtherError("BotoCoreError",
                                                <<"connection">>)))
                 /\ UNCHANGED session
    /\ UNCHANGED <<cfg, accounts, clients, cache, created, audit, disk_ok,
                   cost_tracker>>

\* History: while task t is inside get_client past a cache miss, another
\* invocation with the same tool, account and region has been delivered and
\* waits for the loop.
Overlapped(t) ==
    \E u \in Tasks :
        /\ u # t
        /\ task[u].pc = "received"
        /\ task[u].req = task[t].req

\* AWSClient.get_client, lines 103-114: session.client(...) on
\* self._session, stored under the key and returned.
ConstructClient(t) ==
    /\ Holds(t)
    /\ task[t].pc = "construct"
    /\ LET r == task[t]
           o == r.obj
           key == ClientKey(r.service, r.region)
           h == NewHandle(o, r.service, r.region, session[o].creds,
                          "get_client")
       IN  /\ cache' = [cache EXCEPT ![o] = (key :> h) @@ @]
           /\ created' = created \cup {h}
           /\ Step(t, [r EXCEPT !.pc = AfterGetClient(r.op), !.handle = h,
                                !.overlap = Overlapped(t)])
    /\ UNCHANGED <<cfg, accounts, clients, session, counts, audit, disk_ok,
                   cost_tracker>>

\* AWSClient.get_async_client, driven by a caller that iterates it: an
\* aioboto3 session from the static keys and a client for the region.
AsyncClient(t) ==
    /\ Holds(t)
    /\ task[t].pc = "async_client"
    /\ LET r == task[t]
           o == r.obj
           region == IF Truthy(r.req.region) THEN r.req.region
                     ELSE AccountOf(o).region
           h == NewHandle(o, r.service, region, "long_lived",
                          "get_async_client")
       IN  /\ created' = created \cup {h}
           /\ Step(t, [r EXCEPT !.pc = "done", !.region = region,
                                !.handle = h])
    /\ UNCHANGED <<cfg, accounts, clients, session, cache, counts, audit,
                   disk_ok, cost_tracker>>

\* Mutant of CostCheck: the guard compares the estimate with the threshold
\* whether or not cost tracking is enabled.
CostCheck_IgnoresTrackingFlag(t) ==
    /\ Holds(t)
    /\ task[t].pc = "cost"
    /\ LET r == [task[t] EXCEPT !.cost_checked = TRUE]
           cost_config == CostConfigOf(r.obj)
           estimated_cost == _estimate_ec2_cost(r.req.instance_type)
       IN  Step(t,
             IF /\ cost_config.require_cost_approval
                /\ estimated_cost > cost_config.cost_alert_threshold
             THEN Throw([r EXCEPT !.est = estimated_cost],
                        OtherError("NameError",
                           <<"name 'CostLimitError' is not defined">>))
             ELSE [r EXCEPT !.pc = "provider", !.est = estimated_cost])
    /\ UNCHANGED <<Shared, audit, disk_ok>>

\* Mutant of CostCheck: the estimate is computed and compared but the
\* request goes on to the provider whatever the result.
CostCheck_NeverStops(t) ==
    /\ Holds(t)
    /\ task[t].pc = "cost"
    /\ LET r == [task[t] EXCEPT !.cost_checked = TRUE]
           estimated_cost == _estimate_ec2_cost(r.req.instance_type)
       IN  Step(t,
             IF CostConfigOf(r.obj).track_costs
             THEN [r EXCEPT !.pc = "provider", !.est = estimated_cost]
             ELSE [r EXCEPT !.pc = "provider"])
    /\ UNCHANGED <<Shared, audit, disk_ok>>

\* AWSClient.create_instance, lines 203-212: the cost check.  The raise
\* statement names CostLimitError, which client.py does not import (lines
\* 12-20): evaluating it raises NameError.
CostCheck(t) ==
    /\ Holds(t)
    /\ task[t].pc = "cost"
    /\ LET r == [task[t] EXCEPT !.cost_checked = TRUE]
           cost_config == CostConfigOf(r.obj)
           estimated_cost == _estimate_ec2_cost(r.req.instance_type)
       IN  Step(t,
             IF cost_config.track_costs
             THEN (IF /\ cost_config.require_cost_approval
                      /\ estimated_cost > cost_config.cost_alert_threshold
                   THEN Throw([r EXCEPT !.est = estimated_cost],
                              OtherError("NameError",
                                 <<"name 'CostLimitError' is not defined">>))
                   ELSE [r EXCEPT !.pc = "provider",
                                  !.est = estimated_cost])
             ELSE [r EXCEPT !.pc = "provider"])
    /\ UNCHANGED <<Shared, audit, disk_ok>>

\* The operations whose provider call sits in try/except ClientError.
TranslatedOps == {"list_instances", "create_instance"}

\* The provider call of the operation, on the handle get_client returned:
\* it succeeds or raises a ClientError with some raw code, which
\* list_instances and create_instance catch and hand to
\* _handle_client_error.  stop_instance reads arguments['instance_id'] first.
ProviderCall(t) ==
    /\ Holds(t)
    /\ task[t].pc = "provider"
    /\ LET r == task[t]
           ok == [r EXCEPT !.called = TRUE,
                           !.pc = IF r.req.kind = "tool"
                                  THEN "audit_success" ELSE "done"]
       IN  IF r.op = "stop_instance" /\ ~r.req.has_id
           THEN Step(t, Throw(r, OtherError("KeyError", <<"instance_id">>)))
           ELSE \/ Step(t, ok)
                \/ \E code \in ProviderCodes, m \in ProviderMessages :
                     Step(t, Throw([r EXCEPT !.called = TRUE],
                                   IF r.op \in TranslatedOps
                                   THEN _handle_client_error(
                                            code, m, r.service, r.operation)
                                   ELSE OtherError("ClientError", <<m>>)))
    /\ UNCHANGED <<Shared, audit, disk_ok>>

\* _handle_client_error applied to one ClientError on its own: the task
\* holds the raw code, the service and the operation of the except clause.
HandleClientError(t) ==
    /\ Holds(t)
    /\ task[t].pc = "client_error"
    /\ LET r == task[t]
       IN  \E m \in ProviderMessages :
             Step(t, [r EXCEPT !.pc = "done",
                               !.exc = _handle_client_error(
                                           r.raw, m, r.service, r.operation)])
    /\ UNCHANGED <<Shared, audit, disk_ok>>

\* Mutant of AuditSuccess: a failed write of the tool_success entry is
\* reported to the caller instead of being swallowed.
AuditSuccess_ReportsWriteFailure(t) ==
    /\ Holds(t)
    /\ task[t].pc = "audit_success"
    /\ LET r == task[t]
           w == _audit_log(audit,
                           AuditEntry("tool_success", t, r.req.name, None))
       IN  /\ audit' = w.log
           /\ Step(t, IF cfg.enable_audit_log /\ w.log = audit
                      THEN Throw(r, OtherError("OSError", <<"audit">>))
                      ELSE [r EXCEPT !.pc = "done", !.resp = SuccessResp])
    /\ UNCHANGED <<Shared, disk_ok>>

\* handle_call_tool, lines 278-288: the success entry and the result.
AuditSuccess(t) ==
    /\ Holds(t)
    /\ task[t].pc = "audit_success"
    /\ LET r == task[t]
           w == _audit_log(audit,
                           AuditEntry("tool_success", t, r.req.name, None))
       IN  /\ audit' = w.log
           /\ Step(t, IF w.raised
                      THEN Throw(r, OtherError("OSError", <<"audit">>))
                      ELSE [r EXCEPT !.pc = "done", !.resp = SuccessResp])
    /\ UNCHANGED <<Shared, disk_ok>>

\* handle_call_tool, lines 290-309: except AWSError.  An exception raised
\* inside this clause would leave handle_call_tool.
ExceptAWSError(t) ==
    /\ Holds(t)
    /\ task[t].pc = "except_aws"
    /\ LET r == task[t]
           w == _audit_log(audit,
                           AuditEntry("tool_error", t, r.req.name,
                                      r.exc.error_code))
       IN  /\ audit' = w.log
           /\ Step(t, IF w.raised
                      THEN [r EXCEPT !.pc = "done", !.escaped = TRUE,
                              !.exc = OtherError("OSError", <<"audit">>)]
                      ELSE [r EXCEPT !.pc = "done",
                                     !.resp = TaxonomyResp(r.exc)])
    /\ UNCHANGED <<Shared, disk_ok>>

\* handle_call_tool, lines 311-321: except Exception.
ExceptException(t) ==
    /\ Holds(t)
    /\ task[t].pc = "except_other"
    /\ Step(t, [task[t] EXCEPT !.pc = "done",
                               !.resp = GenericResp(task[t].exc)])
    /\ UNCHANGED <<Shared, audit, disk_ok>>

\* A library caller serializes the AccountConfig of its AWSClient to JSON.
SerializeAccount(t) ==
    /\ Holds(t)
    /\ task[t].pc = "serialize"
    /\ Step(t, [task[t] EXCEPT !.pc = "done",
                               !.out = AccountConfig_json(
                                           AccountOf(task[t].obj))])
    /\ UNCHANGED <<Shared, audit, disk_ok>>

\* AWSConfig.validate_config: the exception it raises, NoExc if it returns.
validate_config ==
    LET has_keys == Truthy(cfg.access_key_id) /\ Truthy(cfg.secret_access_key)
        has_role == cfg.role_arn # None
        has_profile == cfg.profile # None
    IN  IF ~(has_keys \/ has_role \/ has_profile)
        THEN OtherError("ValueError", <<"AWS credentials required">>)
        ELSE IF \E region \in cfg.enabled_regions : region \notin valid_regions
        THEN OtherError("ValueError", <<"Invalid region">>)
        ELSE NoExc

\* main, line 501: config.validate_config()
ValidateConfig(t) ==
    /\ Holds(t)
    /\ task[t].pc = "validate"
    /\ Step(t, IF validate_config = NoExc
               THEN [task[t] EXCEPT !.pc = "create_server"]
               ELSE [task[t] EXCEPT !.pc = "main_except",
                                    !.exc = validate_config])
    /\ UNCHANGED <<Shared, audit, disk_ok>>

\* main, line 504: AWSMCPServer(config), whose accounts are
\* {"default": config.get_account_config()}.
CreateServer(t) ==
    /\ Holds(t)
    /\ task[t].pc = "create_server"
    /\ accounts' = [accounts EXCEPT !["default"] = get_account_config(None)]
    /\ Step(t, [task[t] EXCEPT !.pc = "run"])
    /\ UNCHANGED <<cfg, clients, session, cache, created, counts, audit,
                   disk_ok, cost_tracker>>

\* main, line 505: asyncio.run(server.run()); the server serves.
RunServer(t) ==
    /\ Holds(t)
    /\ task[t].pc = "run"
    /\ Step(t, [task[t] EXCEPT !.pc = "serving"])
    /\ UNCHANGED <<Shared, audit, disk_ok>>

\* main, lines 507-510: except Exception: sys.exit(1)
ExitFailure(t) ==
    /\ Holds(t)
    /\ task[t].pc = "main_except"
    /\ Step(t, [task[t] EXCEPT !.pc = "done", !.exit_code = 1])
    /\ UNCHANGED <<Shared, audit, disk_ok>>

\* _estimate_ec2_cost called on its own for the instance type of the task.
EstimateCost(t) ==
    /\ task[t].pc = "estimate"
    /\ task' = [task EXCEPT ![t].pc = "done",
                            ![t].est = _estimate_ec2_cost(
                                           task[t].req.instance_type)]
    /\ UNCHANGED <<Shared, audit, disk_ok, running>>

Next ==
    \/ DiskFails
    \/ \E t \in Tasks :
        \/ Deliver(t)
        \/ Start(t)
        \/ AuditCall(t)
        \/ GetClientForAccount(t)
        \/ ExecuteTool(t)
        \/ RegionCheck(t)
        \/ CacheLookup(t)
        \/ GetSession(t)
        \/ AssumeRole(t)
        \/ ConstructClient(t)
        \/ AsyncClient(t)
        \/ CostCheck(t)
        \/ ProviderCall(t)
        \/ SerializeAccount(t)
        \/ AuditSuccess(t)
        \/ ExceptAWSError(t)
        \/ ExceptException(t)

Spec == Init /\ [][Next]_vars

\* A library caller's own AWSClient, called directly.
InitLibrary ==
    /\ cfg \in LibraryConfigs
    /\ accounts = [a \in AccountNames |-> NoAccount]
    /\ clients = {"lib"}
    /\ session = [o \in Objs |-> NoSession]
    /\ cache = [o \in Objs |-> <<>>]
    /\ created = {}
    /\ counts = [o \in Objs |->
                   [clients |-> IF o = "lib" THEN 1 ELSE 0,
                    sessions |-> 0, sts |-> 0]]
    /\ task = [t \in Tasks |-> IdleTask]
    /\ audit = <<>>
    /\ disk_ok = TRUE
    /\ cost_tracker = [o \in Objs |->
                         IF o \in clients /\ cfg.track_costs
                         THEN CostTracker ELSE NoCostTracker]
    /\ running = 0

NextLibrary ==
    \E t \in Tasks :
        \/ Deliver(t)
        \/ Start(t)
        \/ RegionCheck(t)
        \/ CacheLookup(t)
        \/ GetSession(t)
        \/ AssumeRole(t)
        \/ ConstructClient(t)
        \/ AsyncClient(t)
        \/ CostCheck(t)
        \/ ProviderCall(t)
        \/ SerializeAccount(t)

SpecLibrary == InitLibrary /\ [][NextLibrary]_vars

\* The MCP server alone: AWSMCPServer(config, accounts) behind the stdio
\* transport, its AWSClients created by _get_client on first use.
InitServer ==
    /\ cfg \in ServerConfigs
    /\ accounts = [a \in AccountNames |->
                     IF a \in DOMAIN ConstructorAccounts
                     THEN ConstructorAccounts[a] ELSE NoAccount]
    /\ clients = {}
    /\ session = [o \in Objs |-> NoSession]
    /\ cache = [o \in Objs |-> <<>>]
    /\ created = {}
    /\ counts = [o \in Objs |-> [clients |-> 0, sessions |-> 0, sts |-> 0]]
    /\ task = [t \in Tasks |-> IdleTask]
    /\ audit = <<>>
    /\ disk_ok = TRUE
    /\ cost_tracker = [o \in Objs |-> NoCostTracker]
    /\ running = 0

NextServer ==
    \/ DiskFails
    \/ \E t \in Tasks :
        \/ Deliver(t)
        \/ Start(t)
        \/ AuditCall(t)
        \/ GetClientForAccount(t)
        \/ ExecuteTool(t)
        \/ RegionCheck(t)
        \/ CacheLookup(t)
        \/ GetSession(t)
        \/ AssumeRole(t)
        \/ ConstructClient(t)
        \/ CostCheck(t)
        \/ ProviderCall(t)
        \/ AuditSuccess(t)
        \/ ExceptAWSError(t)
        \/ ExceptException(t)

SpecServer == InitServer /\ [][NextServer]_vars

\* A server built as AWSMCPServer(config): the accounts map is omitted.
InitIdentity ==
    /\ cfg \in IdentityConfigs
    /\ accounts = [a \in AccountNames |->
                     IF a = "default" THEN get_account_config(None)
                     ELSE NoAccount]
    /\ clients = {}
    /\ session = [o \in Objs |-> NoSession]
    /\ cache = [o \in Objs |-> <<>>]
    /\ created = {}
    /\ counts = [o \in Objs |-> [clients |-> 0, sessions |-> 0, sts |-> 0]]
    /\ task = [t \in Tasks |-> IdleTask]
    /\ audit = <<>>
    /\ disk_ok = TRUE
    /\ cost_tracker = [o \in Objs |->
                         IF o \in clients /\ cfg.track_costs
                         THEN CostTracker ELSE NoCostTracker]
    /\ running = 0

NextIdentity ==
    \E t \in Tasks :
        \/ Deliver(t)
        \/ Start(t)
        \/ AuditCall(t)
        \/ GetClientForAccount(t)
        \/ ExecuteTool(t)
        \/ RegionCheck(t)
        \/ CacheLookup(t)
        \/ GetSession(t)
        \/ ConstructClient(t)
        \/ ProviderCall(t)
        \/ AuditSuccess(t)
        \/ ExceptAWSError(t)
        \/ ExceptException(t)

SpecIdentity == InitIdentity /\ [][NextIdentity]_vars

\* main(): the AWSConfig is loaded; task 1 is the run of main.
InitStartup ==
    /\ cfg \in StartupConfigs
    /\ accounts = [a \in AccountNames |-> NoAccount]
    /\ clients = {}
    /\ session = [o \in Objs |-> NoSession]
    /\ cache = [o \in Objs |-> <<>>]
    /\ created = {}
    /\ counts = [o \in Objs |-> [clients |-> 0, sessions |-> 0, sts |-> 0]]
    /\ task = [t \in Tasks |->
                 IF t = 1
                 THEN [IdleTask EXCEPT !.pc = "validate", !.req = MainRequest]
                 ELSE IdleTask]
    /\ audit = <<>>
    /\ disk_ok = TRUE
    /\ cost_tracker = [o \in Objs |->
                         IF o \in clients /\ cfg.track_costs
                         THEN CostTracker ELSE NoCostTracker]
    /\ running = 1

NextStartup ==
    \E t \in Tasks :
        \/ ValidateConfig(t)
        \/ CreateServer(t)
        \/ RunServer(t)
        \/ ExitFailure(t)

SpecStartup == InitStartup /\ [][NextStartup]_vars

\* Instance types handed to _estimate_ec2_cost: the rate table and two
\* types outside it.
EstimateTypes == DOMAIN hourly_costs \cup {"x9.huge", ""}

\* The estimator on its own: every task estimates one instance type.
InitEstimate ==
    /\ cfg \in { c \in LibraryConfigs :
                   c.track_costs /\ ~c.require_cost_approval
                   /\ c.cost_alert_threshold = DefaultThreshold }
    /\ accounts = [a \in AccountNames |-> NoAccount]
    /\ clients = {"lib"}
    /\ session = [o \in Objs |-> NoSession]
    /\ cache = [o \in Objs |-> <<>>]
    /\ created = {}
    /\ counts = [o \in Objs |->
                   [clients |-> IF o = "lib" THEN 1 ELSE 0,
                    sessions |-> 0, sts |-> 0]]
    /\ task \in [Tasks ->
                  { [IdleTask EXCEPT !.pc = "estimate", !.obj = "lib",
                                     !.op = "_estimate_ec2_cost",
                                     !.req = Req("direct", "_estimate_ec2_cost",
                                                 None, "ec2", None, i, FALSE)]
                    : i \in EstimateTypes }]
    /\ audit = <<>>
    /\ disk_ok = TRUE
    /\ cost_tracker = [o \in Objs |->
                         IF o \in clients /\ cfg.track_costs
                         THEN CostTracker ELSE NoCostTracker]
    /\ running = 0

NextEstimate == \E t \in Tasks : EstimateCost(t)

SpecEstimate == InitEstimate /\ [][NextEstimate]_vars

\* The except clauses that call _handle_client_error: (service, operation).
TranslationSites ==
    { <<"ec2", "describe_instances">>, <<"ec2", "run_instances">>,
      <<"s3", "list_buckets">>, <<"s3", "put_object">>,
      <<"s3", "generate_presigned_url">>, <<"lambda", "invoke">>,
      <<"dynamodb", "query">> }

\* The error translation on its own: every raw code at every site.
InitTranslate ==
    /\ cfg \in { c \in LibraryConfigs :
                   c.track_costs /\ ~c.require_cost_approval
                   /\ c.cost_alert_threshold = DefaultThreshold }
    /\ accounts = [a \in AccountNames |-> NoAccount]
    /\ clients = {"lib"}
    /\ session = [o \in Objs |-> NoSession]
    /\ cache = [o \in Objs |-> <<>>]
    /\ created = {}
    /\ counts = [o \in Objs |->
                   [clients |-> IF o = "lib" THEN 1 ELSE 0,
                    sessions |-> 0, sts |-> 0]]
    /\ \E code \in RawCodes, site \in TranslationSites :
          task = [t \in Tasks |->
                    IF t = 1
                    THEN [IdleTask EXCEPT !.pc = "client_error",
                                          !.obj = "lib", !.raw = code,
                                          !.service = site[1],
                                          !.operation = site[2]]
                    ELSE IdleTask]
    /\ audit = <<>>
    /\ disk_ok = TRUE
    /\ cost_tracker = [o \in Objs |->
                         IF o \in clients /\ cfg.track_costs
                         THEN CostTracker ELSE NoCostTracker]
    /\ running = 1

NextTranslate == \E t \in Tasks : HandleClientError(t)

SpecTranslate == InitTranslate /\ [][NextTranslate]_vars

\* ------------------------------------------------------------ properties
Done(t) == task[t].pc = "done"

ToolDone(t) == Done(t) /\ task[t].req.kind = "tool"

\* The audit sink takes entries: logging is enabled and the file, if one is
\* configured, can be written.
AuditWorks ==
    /\ cfg.enable_audit_log
    /\ cfg.audit_log_file # None => disk_ok

\* The event types of the entries task t wrote, in log order.
RECURSIVE EventsOf(_, _)
EventsOf(log, t) ==
    IF log = <<>> THEN <<>>
    ELSE IF Head(log).task = t
    THEN <<Head(log).event_type>> \o EventsOf(Tail(log), t)
    ELSE EventsOf(Tail(log), t)

\* The last entry of task t in the log (only used where there is one).
LastEntryOf(log, t) ==
    LET idx == {i \in 1..Len(log) : log[i].task = t}
    IN  log[CHOOSE i \in idx : \A j \in idx : j <= i]

\* C1: every invocation that handle_call_tool has finished left exactly one
\* "tool_call" entry followed by exactly one "tool_success" or "tool_error"
\* entry in the audit log (stated for a deployment whose audit sink works).
C1_OneCallOneTerminator ==
    \A t \in Tasks :
        ToolDone(t) /\ AuditWorks =>
            EventsOf(audit, t) \in { <<"tool_call", "tool_success">>,
                                     <<"tool_call", "tool_error">> }

\* C2: handle_call_tool never lets a failure escape: every finished
\* invocation returned a response (a success payload, a taxonomy error object
\* or a generic error object) and no exception left the handler.
C2_NoFailureEscapes ==
    \A t \in Tasks :
        ToolDone(t) =>
            /\ ~task[t].escaped
            /\ task[t].resp.shape \in {"success", "taxonomy", "generic"}
            /\ task[t].resp.shape = "success" <=> task[t].exc = NoExc

\* C2 witness: the audit file became unwritable after the invocation's
\* tool_call entry was written, the invocation failed with a taxonomy error,
\* and it still ended with the structured error object.
C2_Witness ==
    \E t \in Tasks :
        /\ ToolDone(t)
        /\ cfg.audit_log_file # None /\ ~disk_ok
        /\ EventsOf(audit, t) = <<"tool_call">>
        /\ task[t].exc.kind = "AWSError"
        /\ task[t].resp.shape = "taxonomy"

\* get_client rejected the region of task t: the task holds a region outside
\* the enabled set, which only the region check of get_client leaves behind.
RegionRejected(t) ==
    /\ task[t].op \in {"get_client", "list_instances", "create_instance",
                       "stop_instance"}
    /\ task[t].region # None
    /\ task[t].region \notin EnabledRegionsOf(task[t].obj)
    /\ task[t].pc \in {"except_aws", "except_other", "done"}

\* C3: a region outside enabled_regions makes get_client fail with the
\* RegionNotEnabled taxonomy error, which names the region; dispatched, the
\* response carries error_code "RegionNotEnabled".
C3_RegionNotEnabled ==
    \A t \in Tasks :
        RegionRejected(t) =>
            /\ task[t].exc.kind = "AWSError"
            /\ task[t].exc.error_code = "RegionNotEnabled"
            /\ \E i \in DOMAIN task[t].exc.message :
                 task[t].exc.message[i] = task[t].region
            /\ ToolDone(t) => task[t].resp.error_code = "RegionNotEnabled"

\* C4: every client handle that an AWSClient operation has constructed,
\* through get_client or get_async_client, is for an enabled region, and no
\* provider call is made in a region outside the enabled set.
C4_ClientsOnlyInEnabledRegions ==
    /\ \A h \in created : h.region \in EnabledRegionsOf(h.obj)
    /\ \A t \in Tasks :
         task[t].called => task[t].handle.region \in EnabledRegionsOf(task[t].obj)

\* Task t obtained a handle from get_client.
GotClient(t) ==
    /\ task[t].handle # NoHandle
    /\ task[t].handle.via = "get_client"

\* C5: within one AWSClient every get_client call for a key returns the
\* handle the first successful call for that key constructed (the cached
\* handle is that first one, never a later replacement), and a handle
\* returned for one account is never returned on another account.
C5_SameHandlePerKey ==
    /\ \A o \in Objs : \A k \in DOMAIN cache[o] :
         /\ cache[o][k] \in created
         /\ cache[o][k].n = 1
         /\ cache[o][k].obj = o
         /\ ClientKey(cache[o][k].service, cache[o][k].region) = k
    /\ \A t \in Tasks :
         GotClient(t) =>
            /\ ClientKey(task[t].service, task[t].region)
                   \in DOMAIN cache[task[t].obj]
            /\ task[t].handle
                   = cache[task[t].obj][ClientKey(task[t].service,
                                                  task[t].region)]
    /\ \A t, u \in Tasks :
         GotClient(t) /\ GotClient(u) /\ task[t].obj # task[u].obj
            => task[t].handle # task[u].handle

\* C5 witness: two finished get_client calls on one AWSClient for one key
\* hold the identical handle.
C5_Witness ==
    \E t, u \in Tasks :
        /\ t # u /\ Done(t) /\ Done(u)
        /\ GotClient(t) /\ GotClient(u)
        /\ task[t].obj = task[u].obj
        /\ task[t].service = task[u].service
        /\ task[t].region = task[u].region
        /\ task[t].handle = task[u].handle

\* C6: under concurrently delivered invocations at most one AWSClient per
\* account, one session resolution per AWSClient and one client handle per
\* (AWSClient, service, region) are ever constructed, and all invocations of
\* one account and key use that one handle.
C6_OneHandleUnderConcurrency ==
    /\ \A o \in Objs : counts[o].clients <= 1 /\ counts[o].sessions <= 1
    /\ \A h, g \in created :
         /\ h.via = "get_client" /\ g.via = "get_client"
         /\ h.obj = g.obj /\ h.service = g.service /\ h.region = g.region
         => h = g
    /\ \A t, u \in Tasks :
         /\ GotClient(t) /\ GotClient(u)
         /\ task[t].obj = task[u].obj
         /\ task[t].service = task[u].service
         /\ task[t].region = task[u].region
         => task[t].handle = task[u].handle

\* C6 witness: an invocation built the client for its key while a second
\* invocation for the same tool, account and region was already delivered;
\* both succeeded with the same handle, the only one constructed.
C6_Witness ==
    \E t, u \in Tasks :
        /\ t # u
        /\ task[t].overlap
        /\ task[u].req = task[t].req
        /\ ToolDone(t) /\ ToolDone(u)
        /\ task[t].resp.shape = "success" /\ task[u].resp.shape = "success"
        /\ GotClient(t) /\ task[t].handle = task[u].handle
        /\ Cardinality(created) = 1

\* C7: when the token exchange of a role account fails with provider
\* message M, credential resolution raises the Authentication error with
\* auth_type "role_assumption" and a message containing M; dispatched, the
\* response carries error_code "AuthenticationFailed" and the invocation's
\* last audit entry is a tool_error with that error_code.
C7_RoleAssumptionFailure ==
    \A t \in Tasks :
        task[t].sts_error # None =>
            /\ task[t].exc.kind = "AWSError"
            /\ task[t].exc.cls = "AuthenticationError"
            /\ task[t].exc.error_code = "AuthenticationFailed"
            /\ task[t].exc.attrs.auth_type = "role_assumption"
            /\ \E i \in DOMAIN task[t].exc.message :
                 task[t].exc.message[i] = task[t].sts_error
            /\ ToolDone(t) =>
                 /\ task[t].resp.shape = "taxonomy"
                 /\ task[t].resp.error_code = "AuthenticationFailed"
                 /\ AuditWorks =>
                      /\ EventsOf(audit, t) = <<"tool_call", "tool_error">>
                      /\ LastEntryOf(audit, t).error_code
                             = "AuthenticationFailed"

\* C7 witness: a dispatched invocation on the role account whose token
\* exchange was denied has finished, with the audit sink working.
C7_Witness ==
    \E t \in Tasks :
        /\ ToolDone(t) /\ AuditWorks
        /\ task[t].sts_error = "Access Denied"
        /\ Truthy(AccountOf(task[t].obj).role_arn)

\* C8: for an account with a role ARN, every client handle get_client
\* constructed and cached is built from the temporary credentials of the
\* token exchange, never from the base session's long-lived credentials.
C8_OnlyTemporaryCredentials ==
    /\ \A h \in created :
         h.via = "get_client" /\ Truthy(AccountOf(h.obj).role_arn)
            => h.creds = "temporary"
    /\ \A t \in Tasks :
         GotClient(t) /\ Truthy(AccountOf(task[t].obj).role_arn)
            => task[t].handle.creds = "temporary"

\* The cost guard of create_instance blocks the request of task t.
CostBlocked(t) ==
    /\ task[t].op = "create_instance"
    /\ task[t].pc \in {"except_aws", "except_other", "done"}
    /\ task[t].handle # NoHandle
    /\ CostConfigOf(task[t].obj).track_costs
    /\ CostConfigOf(task[t].obj).require_cost_approval
    /\ _estimate_ec2_cost(task[t].req.instance_type)
          > CostConfigOf(task[t].obj).cost_alert_threshold

\* C9: with cost tracking on, create_instance fails with the
\* CostLimitExceeded taxonomy error when approval is required and the
\* estimate is strictly above the threshold, and is not blocked otherwise.
C9_CostLimitExceeded ==
    \A t \in Tasks :
        /\ CostBlocked(t) =>
             /\ task[t].exc.kind = "AWSError"
             /\ task[t].exc.error_code = "CostLimitExceeded"
             /\ ~task[t].called
        /\ task[t].op = "create_instance" /\ ~CostBlocked(t)
             => task[t].exc.error_code # "CostLimitExceeded"

\* The family table of the claim: raw code -> exception class.
ExpectedClass(code) ==
    IF code \in {"UnauthorizedOperation", "AccessDenied",
                 "AccessDeniedException"} THEN "AuthorizationError"
    ELSE IF code \in {"InvalidUserID.NotFound", "NoSuchEntity",
                      "ResourceNotFoundException"}
    THEN "ResourceNotFoundError"
    ELSE IF code \in {"ValidationException", "InvalidParameterValue",
                      "InvalidParameterCombination"} THEN "ValidationError"
    ELSE IF code \in {"Throttling", "ThrottlingException",
                      "RequestLimitExceeded"} THEN "ThrottlingError"
    ELSE "ServiceError"

\* C10: _handle_client_error maps every raw code to the one taxonomy error
\* of its family, and every code outside the families to ServiceError
\* carrying the service and the operation.
C10_TranslationTable ==
    \A t \in Tasks :
        Done(t) /\ task[t].raw # None =>
            /\ task[t].exc.kind = "AWSError"
            /\ task[t].exc.cls = ExpectedClass(task[t].raw)
            /\ task[t].exc.cls = "ServiceError" =>
                 /\ task[t].exc.attrs.service = task[t].service
                 /\ task[t].exc.attrs.operation = task[t].operation

\* C10 witness: a code of the throttling family and a code outside every
\* family have been translated.
C10_Witness ==
    \E t \in Tasks :
        /\ Done(t)
        /\ task[t].raw = "RequestLimitExceeded"
        /\ task[t].exc.cls = "ThrottlingError"

\* The taxonomy error codes of exceptions.py.
TaxonomyCodes ==
    {"AuthenticationFailed", "AccessDenied", "ResourceNotFound",
     "ValidationError", "Throttling", "ServiceError", "LimitExceeded",
     "CostLimitExceeded", "RegionNotEnabled"}

\* The provider call of tool invocation t was made and raised.
ProviderRaised(t) ==
    /\ task[t].req.kind = "tool"
    /\ task[t].called
    /\ task[t].exc # NoExc

\* C11: for every tool of the dispatcher, an error the provider raises in the
\* underlying call reaches handle_call_tool as a taxonomy error (an AWSError
\* with a taxonomy error_code), never as a raw provider exception.
C11_ProviderErrorsAreTaxonomy ==
    \A t \in Tasks :
        ProviderRaised(t) =>
            /\ task[t].exc.kind = "AWSError"
            /\ task[t].exc.error_code \in TaxonomyCodes
            /\ task[t].exc.cls # "ClientError"

\* Account selector a names no configured account: it is not in the accounts
\* map the server was constructed with, and the environment holds no
\* account-scoped setting for it (getenv).
UnknownAccount(a) ==
    /\ a # None
    /\ a \notin DOMAIN ConstructorAccounts
    /\ getenv(a, "ACCESS_KEY_ID", None) = None
    /\ getenv(a, "ROLE_ARN", None) = None
    /\ getenv(a, "PROFILE", None) = None

\* C12: an invocation whose account selector names an unknown account fails
\* with a configuration error outside the taxonomy; no AWSClient is created
\* for that name and no provider call is made, so an unknown name never gets
\* a client built from the default account's credentials.
C12_UnknownAccountRejected ==
    \A t \in Tasks :
        /\ cfg.deployment = "server"
        /\ task[t].req.kind = "tool"
        /\ UnknownAccount(task[t].req.account)
        => /\ task[t].req.account \notin clients
           /\ counts[task[t].req.account].clients = 0
           /\ session[task[t].req.account] = NoSession
           /\ ~task[t].called
           /\ task[t].pc \notin {"idle", "received", "audit_call", "resolve"}
                => /\ task[t].exc.kind = "Other"
                   /\ task[t].exc.cls = "ValueError"
           /\ ToolDone(t) => task[t].resp.shape = "generic"

\* Identity a has none of {static access key together with its secret, role
\* ARN, named profile}; a key without a secret does not count.
InvalidIdentity(a) ==
    /\ ~(Truthy(a.access_key_id) /\ Truthy(a.secret_access_key))
    /\ ~Truthy(a.role_arn)
    /\ ~Truthy(a.profile)

\* C13: an account identity with none of {key with secret, role ARN,
\* profile} is rejected before any network use: no session is created for it
\* and no provider or token-service call is made on its behalf, whether it
\* came from the default configuration or from the settings of a named
\* account.
C13_InvalidIdentityRejected ==
    \A o \in AccountNames :
        InvalidIdentity(accounts[o]) =>
            /\ session[o] = NoSession
            /\ counts[o].sessions = 0
            /\ counts[o].sts = 0
            /\ \A t \in Tasks : task[t].obj = o => ~task[t].called

\* Invocation t is inside a blocking network call: the token exchange of
\* _get_session, or the provider call of its operation (the call lasts from
\* the moment the task reaches the position until the action that returns
\* from it).  stop_instance without instance_id fails before its call.
InBlockingCall(t) ==
    \/ task[t].pc = "assume"
    \/ /\ task[t].pc = "provider"
       /\ ~(task[t].op = "stop_instance" /\ ~task[t].req.has_id)

\* C14: while one invocation waits inside a blocking provider network call,
\* the event loop is not held by it (the call runs on a separate worker), so
\* a second invocation that has been delivered can start.
C14_StallDoesNotBlockOthers ==
    \A t, u \in Tasks :
        /\ task[t].req.kind = "tool" /\ task[u].req.kind = "tool"
        /\ InBlockingCall(t)
        /\ task[u].pc = "received"
        /\ \A v \in Tasks : v < u => task[v].pc # "received"
        => /\ running # t
           /\ ENABLED Start(u)

\* C15: a failed invocation is reported in one of two shapes that cannot be
\* confused: a taxonomy error as {error, error_code, request_id, details}
\* with the error_code of the raised error, any other failure as a generic
\* object that carries no error_code.
C15_FailureShapes ==
    \A t \in Tasks :
        ToolDone(t) /\ task[t].exc # NoExc =>
            /\ task[t].exc.kind = "AWSError" =>
                 /\ task[t].resp.shape = "taxonomy"
                 /\ task[t].resp.keys
                        = {"error", "error_code", "request_id", "details"}
                 /\ task[t].resp.error_code = task[t].exc.error_code
                 /\ task[t].resp.error_code \in TaxonomyCodes
                 /\ task[t].resp.error = task[t].exc.message
            /\ task[t].exc.kind = "Other" =>
                 /\ task[t].resp.shape = "generic"
                 /\ "error_code" \notin task[t].resp.keys
                 /\ task[t].resp.error_code = None
                 /\ task[t].resp.error_type = task[t].exc.cls

\* C15 witness: one invocation ended with a taxonomy error object and
\* another with a generic error object.
C15_Witness ==
    \E t, u \in Tasks :
        /\ ToolDone(t) /\ ToolDone(u)
        /\ task[t].exc.kind = "AWSError" /\ task[t].resp.shape = "taxonomy"
        /\ task[u].exc.kind = "Other" /\ task[u].resp.shape = "generic"

\* The response handle_call_tool returns for the outcome e of its body
\* (NoExc: the tool returned) when every audit write succeeds.
ResponseFor(e) ==
    IF e = NoExc THEN SuccessResp
    ELSE IF e.kind = "AWSError" THEN TaxonomyResp(e)
    ELSE GenericResp(e)

\* C16: a failed write of an audit entry never changes the outcome of the
\* invocation: the response is the one the tool's own result determines, the
\* write failure is not raised to the caller, and two invocations with the
\* same request and the same result get the same response whether or not
\* their audit writes succeeded.
C16_AuditFailureKeepsOutcome ==
    /\ \A t \in Tasks :
         ToolDone(t) =>
            /\ ~task[t].escaped
            /\ task[t].exc.cls # "OSError"
            /\ task[t].resp = ResponseFor(task[t].exc)
    /\ \A t, u \in Tasks :
         /\ ToolDone(t) /\ ToolDone(u)
         /\ task[t].req = task[u].req
         /\ task[t].exc = task[u].exc
         => task[t].resp = task[u].resp

\* C16 witness: two invocations with the same request both succeeded; the
\* first wrote both its entries, the second lost its tool_success entry to a
\* failed write, and both got the same response.
C16_Witness ==
    \E t, u \in Tasks :
        /\ t # u /\ ToolDone(t) /\ ToolDone(u)
        /\ task[t].req = task[u].req
        /\ cfg.audit_log_file # None /\ ~disk_ok
        /\ EventsOf(audit, t) = <<"tool_call", "tool_success">>
        /\ EventsOf(audit, u) = <<"tool_call">>
        /\ task[t].resp = SuccessResp /\ task[u].resp = SuccessResp

\* The clear secret values of the identities of a deployment.
ClearSecrets ==
    { a.secret_access_key :
        a \in { b \in {LibAccount, accounts["default"], accounts["prod"],
                       accounts["ghost"],
                       [secret_access_key |-> cfg.secret_access_key]} :
                  Truthy(b.secret_access_key) } }

\* C17: the secret of an account identity never appears in clear form in
\* what the program logs or serializes: not in the serialized AccountConfig,
\* not in a response and not in an audit entry (so these are the same for two
\* identities that differ only in their secret).
C17_SecretsNeverInClear ==
    /\ \A t \in Tasks :
         /\ task[t].out.secret_access_key.form # "clear"
         /\ task[t].out.secret_access_key.value \notin ClearSecrets
         /\ \A i \in DOMAIN task[t].resp.error :
              task[t].resp.error[i] \notin ClearSecrets
    /\ \A i \in DOMAIN audit :
         /\ audit[i].tool \notin ClearSecrets
         /\ audit[i].error_code \notin ClearSecrets

\* The loaded configuration must not start: the default identity has none of
\* {access key with secret, role ARN, profile}, or an enabled region is not a
\* known region.
StartupInvalid ==
    \/ InvalidIdentity([access_key_id |-> cfg.access_key_id,
                        secret_access_key |-> cfg.secret_access_key,
                        role_arn |-> cfg.role_arn, profile |-> cfg.profile])
    \/ \E region \in cfg.enabled_regions : region \notin valid_regions

\* main() has created the AWSMCPServer.
ServerCreated == accounts["default"] # NoAccount

\* C18: startup fails fast: with an invalid default identity or an enabled
\* region outside the known list, main() ends with exit code 1 and neither
\* creates nor runs the server; otherwise validation succeeds and the server
\* is created and started.
C18_StartupFailsFast ==
    \A t \in Tasks :
        task[t].req.kind = "main" =>
            /\ StartupInvalid =>
                 /\ ~ServerCreated
                 /\ task[t].pc \in {"validate", "main_except", "done"}
                 /\ Done(t) => task[t].exit_code = 1
            /\ ~StartupInvalid =>
                 /\ task[t].pc \in {"validate", "create_server", "run",
                                    "serving"}
                 /\ task[t].exit_code = -1
                 /\ task[t].pc \in {"run", "serving"} => ServerCreated

\* create_instance of task t got its client and has left the cost check.
PastCostCheck(t) ==
    /\ task[t].op = "create_instance"
    /\ task[t].handle # NoHandle
    /\ task[t].pc \notin {"cost"}

\* C19: with cost tracking disabled the cost guard always allows: whatever
\* the instance type, the threshold and the require-approval flag,
\* create_instance is not stopped at the guard and goes on to the provider.
C19_TrackingOffAlwaysAllows ==
    \A t \in Tasks :
        PastCostCheck(t) /\ ~CostConfigOf(task[t].obj).track_costs =>
            /\ task[t].exc.error_code # "CostLimitExceeded"
            /\ task[t].exc.cls \notin {"CostLimitError", "NameError"}
            /\ task[t].pc = "provider" \/ task[t].called

\* C19 witness: tracking is off, approval is required and the estimate of
\* the requested type is above the threshold; create_instance reached the
\* provider.
C19_Witness ==
    \E t \in Tasks :
        /\ Done(t) /\ PastCostCheck(t) /\ task[t].called
        /\ ~CostConfigOf(task[t].obj).track_costs
        /\ CostConfigOf(task[t].obj).require_cost_approval
        /\ _estimate_ec2_cost(task[t].req.instance_type)
              > CostConfigOf(task[t].obj).cost_alert_threshold

\* Task t has finished an estimate.
Estimated(t) == Done(t) /\ task[t].op = "_estimate_ec2_cost"

\* C20: the cost estimate depends on the instance type alone: for a type in
\* the rate table it is that type's hourly rate times 24 times 30 (122.4
\* dollars for "c5.xlarge"), for any other type the default rate of 0.1
\* dollar per hour times 24 times 30, and estimating never fails.
C20_EstimateIsTableLookup ==
    /\ \A t \in Tasks :
         Estimated(t) =>
            /\ task[t].exc = NoExc
            /\ task[t].req.instance_type \in DOMAIN hourly_costs =>
                 task[t].est
                    = hourly_costs[task[t].req.instance_type] * 24 * 30
            /\ task[t].req.instance_type = "c5.xlarge" =>
                 task[t].est * 10 = 1224 * 10000
            /\ task[t].req.instance_type \notin DOMAIN hourly_costs =>
                 task[t].est = (10000 \div 10) * 24 * 30
    /\ \A t, u \in Tasks :
         /\ Estimated(t) /\ Estimated(u)
         /\ task[t].req.instance_type = task[u].req.instance_type
         => task[t].est = task[u].est

\* C20 witness: "c5.xlarge" and a type outside the rate table have both been
\* estimated.
C20_Witness ==
    \E t, u \in Tasks :
        /\ Estimated(t) /\ Estimated(u)
        /\ task[t].req.instance_type = "c5.xlarge"
        /\ task[u].req.instance_type = "x9.huge"
        /\ task[u].est > 0

\* The audit log holds a tool_call entry of invocation t, and it is the
\* first entry of t.
HasToolCallFirst(t) ==
    \E i \in DOMAIN audit :
        /\ audit[i].task = t
        /\ audit[i].event_type = "tool_call"
        /\ \A j \in 1..(i - 1) : audit[j].task # t

\* Invocation t has not yet passed the tool_call write of handle_call_tool.
BeforeToolCall(t) == task[t].pc \in {"idle", "received", "audit_call"}

\* C21: the tool_call entry is written before any other work of the
\* invocation: an invocation that has not passed that write has resolved no
\* account, holds no client and has made no call, and (with a working audit
\* sink) every later step of it finds its tool_call entry in the log.
C21_ToolCallBeforeAnyWork ==
    /\ [](\A t \in Tasks :
            task[t].req.kind = "tool" /\ BeforeToolCall(t) =>
                /\ task[t].obj = None
                /\ task[t].handle = NoHandle
                /\ ~task[t].called
                /\ task[t].sts_error = None)
    /\ [][\A t \in Tasks :
            /\ task[t].req.kind = "tool"
            /\ task'[t] # task[t]
            /\ ~BeforeToolCall(t)
            /\ AuditWorks
            => HasToolCallFirst(t)]_vars

\* C21 witness: an invocation has created the AWSClient of its account,
\* built a client and called the provider, and its first audit entry is its
\* tool_call entry.
C21_Witness ==
    \E t \in Tasks :
        /\ ToolDone(t) /\ AuditWorks
        /\ task[t].called /\ GotClient(t)
        /\ counts[task[t].obj].clients = 1
        /\ HasToolCallFirst(t)

\* C22: in get_client the region check comes before every credential and
\* network step: the step that rejects a region creates no session, makes no
\* token exchange, constructs no client and leaves the memoized session and
\* the client cache as they were, and the rejected call holds no handle and
\* has made no call; also when the region was omitted and the account's own
\* region is not enabled.
C22_RegionCheckFirst ==
    /\ [](\A t \in Tasks :
            RegionRejected(t) =>
                /\ task[t].handle = NoHandle
                /\ ~task[t].called
                /\ task[t].sts_error = None)
    /\ [][\A t \in Tasks :
            /\ task[t].pc = "region"
            /\ task'[t].pc # "region"
            /\ task'[t].region \notin EnabledRegionsOf(task[t].obj)
            => /\ session' = session
               /\ cache' = cache
               /\ created' = created
               /\ counts' = counts]_vars

\* C22 witness: a call that omitted the region was rejected because the
\* account's own region is not enabled; the account has no session, no
\* cached client and no token exchange.
C22_Witness ==
    \E t \in Tasks :
        /\ RegionRejected(t) /\ Done(t)
        /\ task[t].req.region = None
        /\ session[task[t].obj] = NoSession
        /\ cache[task[t].obj] = <<>>
        /\ counts[task[t].obj].sts = 0
        /\ counts[task[t].obj].sessions = 0

\* Credential resolution of object o has succeeded: a session is memoized
\* and, for an account with a role, it is the session of the token exchange.
Resolved(o) ==
    /\ session[o] # NoSession
    /\ Truthy(AccountOf(o).role_arn) => session[o].creds = "temporary"

\* C23: credential resolution is memoized per AWSClient: the base session is
\* built at most once and the token exchange is made at most once, and once
\* resolution has succeeded every later get_client, for any service, leaves
\* the memoized session in place without building or exchanging again.
C23_ResolutionMemoized ==
    /\ [](\A o \in Objs : counts[o].sessions <= 1 /\ counts[o].sts <= 1)
    /\ [][\A o \in Objs :
            Resolved(o) => /\ session'[o] = session[o]
                           /\ counts'[o] = counts[o]]_vars

\* C23 witness: two get_client calls on one AWSClient with a role, for two
\* services, both returned a client of the one session of the one token
\* exchange.
C23_Witness ==
    \E t, u \in Tasks :
        /\ Done(t) /\ Done(u)
        /\ GotClient(t) /\ GotClient(u)
        /\ task[t].obj = task[u].obj
        /\ task[t].service # task[u].service
        /\ task[t].handle.creds = "temporary"
        /\ task[u].handle.creds = "temporary"
        /\ counts[task[t].obj].sessions = 1
        /\ counts[task[t].obj].sts = 1

\* The sum of the estimates of the create-instance operations that the
\* tasks 1..n executed on object o (the provider call was made and returned).
RECURSIVE ExecutedCost(_, _)
ExecutedCost(o, n) ==
    IF n = 0 THEN 0
    ELSE ExecutedCost(o, n - 1)
         + (IF /\ task[n].obj = o
               /\ task[n].op = "create_instance"
               /\ task[n].called
               /\ task[n].exc = NoExc
            THEN _estimate_ec2_cost(task[n].req.instance_type) ELSE 0)

\* C24: with cost tracking enabled, whenever no invocation is running the
\* tracker's total and its total of the day equal the sum of the estimates
\* of the create-instance operations that were executed; blocked and failed
\* operations add nothing.
C24_TrackerSumsExecuted ==
    running = 0 =>
        \A o \in Objs :
            cost_tracker[o].exists =>
                /\ cost_tracker[o].total_cost = ExecutedCost(o, MaxTasks)
                /\ get_daily_cost(cost_tracker[o]) = ExecutedCost(o, MaxTasks)

\* The operations of the mutating tools (create-instance, start-instance,
\* stop-instance, upload-object, create-stack).
MutatingOps ==
    {"create_instance", "start_instance", "stop_instance", "upload_object",
     "create_stack"}

\* C25: every mutating invocation passes the cost check after its region
\* was validated and before its provider call: no provider call of a
\* mutating tool is made by an invocation that has not been cost-checked.
C25_MutatingCallsAreCostChecked ==
    \A t \in Tasks :
        /\ task[t].req.kind = "tool"
        /\ task[t].op \in MutatingOps
        => /\ task[t].called => task[t].cost_checked
           /\ task[t].pc = "provider" => task[t].cost_checked
           /\ task[t].cost_checked => task[t].region \in EnabledRegionsOf(task[t].obj)

\* C26: a create-instance call that the cost guard rejects (tracking on,
\* approval required, estimate above the threshold) never reaches the
\* provider's run_instances call, whatever exception the rejection raises.
C26_RejectedNeverCallsProvider ==
    \A t \in Tasks :
        /\ task[t].op = "create_instance"
        /\ task[t].cost_checked
        /\ CostConfigOf(task[t].obj).track_costs
        /\ CostConfigOf(task[t].obj).require_cost_approval
        /\ _estimate_ec2_cost(task[t].req.instance_type)
              > CostConfigOf(task[t].obj).cost_alert_threshold
        => /\ ~task[t].called
           /\ task[t].pc # "provider"
           /\ task[t].exc # NoExc

\* C26 witness: create_instance of "c5.xlarge" with approval required and a
\* threshold of 100 dollars was stopped at the guard and has returned to its
\* caller without a provider call.
C26_Witness ==
    \E t \in Tasks :
        /\ Done(t) /\ CostBlocked(t)
        /\ task[t].req.instance_type = "c5.xlarge"
        /\ CostConfigOf(task[t].obj).cost_alert_threshold = DefaultThreshold
        /\ task[t].exc.cls = "NameError"
        /\ ~task[t].called

\* C27: a failed role assumption leaves the resolution state of the account
\* as it was: after the Authentication error no session is memoized, so
\* the account holds either no session or, after a later exchange that
\* succeeded, the session of that exchange, and no client is ever built or
\* cached from the state the failure left behind.
C27_FailedAssumptionLeavesNoState ==
    \A t \in Tasks :
        task[t].sts_error # None =>
            /\ session[task[t].obj] = NoSession
                 \/ session[task[t].obj].creds = "temporary"
            /\ \A k \in DOMAIN cache[task[t].obj] :
                 cache[task[t].obj][k].creds = "temporary"
            /\ \A u \in Tasks :
                 GotClient(u) /\ task[u].obj = task[t].obj
                    => task[u].handle.creds = "temporary"

====
